---- MODULE Spec2Model ----
(***************************************************************************)
(* Model of the TypeScript Lambda CRUD handler (typescript/src): the type  *)
(* guards and error classes of types.ts, the pure pipeline of utils.ts     *)
(* (classification, resource-id extraction, sanitization, response         *)
(* formatting) and the handler of index.ts as a state machine over one     *)
(* invocation; and of ApiGatewayEventHandler.java, the Java handler that   *)
(* logs an event and answers 200 or 500.                                   *)
(*                                                                         *)
(* JavaScript values are tagged records.  A JavaScript string is a         *)
(* sequence of atoms: one atom per UTF-16 code unit for data strings       *)
(* (keys, parameter values, body text), one atom per word for the fixed    *)
(* message literals of the source.                                         *)
(***************************************************************************)
EXTENDS Integers, Sequences, FiniteSets, TLC

VARIABLES
    fault,       \* the call into the logger, tracer or console that throws
    call,        \* the last direct application of an exported function
    event,       \* the APIGatewayProxyEventV2 handed to the handler
    pc,          \* position of the handler inside one invocation
    segment,     \* what tracer.getSegment() returned (TRUE: a segment)
    closed,      \* number of segment.close() calls
    attrs,       \* logger.addPersistentLogAttributes has been called
    logs,        \* records written through logger.info / logger.error
    console,     \* operation branches that wrote their view to stdout
    ctxResult,   \* contextResult of the handler
    parsed,      \* bodyResult of the handler
    requestBody, \* requestBody of the handler
    thrown,      \* error travelling to the catch clause
    response     \* the envelope the handler returns

vars == <<fault, call, event, pc, segment, closed, attrs, logs, console,
          ctxResult, parsed, requestBody, thrown, response>>

hvars == <<fault, event, pc, segment, closed, attrs, logs, console,
           ctxResult, parsed, requestBody, thrown, response>>

-----------------------------------------------------------------------------
(* Bounds *)

MaxParams == 2
MaxHandlerParams == 1
MaxShort == 2
MaxOver == 2

-----------------------------------------------------------------------------
(* JavaScript values *)

Undefined == [t |-> "undefined"]
Null == [t |-> "null"]
Str(s) == [t |-> "string", v |-> s]
Num(n) == [t |-> "number", v |-> n]
Bool(b) == [t |-> "boolean", v |-> b]
Arr(items) == [t |-> "array", v |-> items]
Obj(entries) == [t |-> "object", v |-> entries]

None == [t |-> "none"]

typeof(x) ==
    IF x.t \in {"object", "array", "null", "error"} THEN "object" ELSE x.t

Ok(value) == [ok |-> TRUE, value |-> value]
Err(error) == [ok |-> FALSE, error |-> error]

W(word) == <<word>>

-----------------------------------------------------------------------------
(* Strings as sequences of code-unit atoms *)

UpperCase == <<"A", "B", "C", "D", "E", "F", "G", "H", "I", "J", "K", "L", "M",
               "N", "O", "P", "Q", "R", "S", "T", "U", "V", "W", "X", "Y", "Z">>
LowerCase == <<"a", "b", "c", "d", "e", "f", "g", "h", "i", "j", "k", "l", "m",
               "n", "o", "p", "q", "r", "s", "t", "u", "v", "w", "x", "y", "z">>

\* UTF-16 code unit of an atom
CodeUnit(c) ==
    CASE c = "NUL" -> 0
      [] c = "US" -> 31
      [] c = "SP" -> 32
      [] c = "~" -> 126
      [] c = "DEL" -> 127
      [] c = "APC" -> 159
      [] c = "NBSP" -> 160
      [] \E i \in 1..26 : UpperCase[i] = c ->
            64 + (CHOOSE i \in 1..26 : UpperCase[i] = c)
      [] \E i \in 1..26 : LowerCase[i] = c ->
            96 + (CHOOSE i \in 1..26 : LowerCase[i] = c)

toLowerCase(s) ==
    [i \in 1..Len(s) |->
        IF \E j \in 1..26 : UpperCase[j] = s[i]
        THEN LowerCase[CHOOSE j \in 1..26 : UpperCase[j] = s[i]]
        ELSE s[i]]

\* String.prototype.includes
contains(s, sub) ==
    \E i \in 0..(Len(s) - Len(sub)) : SubSeq(s, i + 1, i + Len(sub)) = sub

\* String.prototype.substring(0, n)
substring(s, n) == SubSeq(s, 1, IF n < Len(s) THEN n ELSE Len(s))

\* Object.entries / property read on an object or array value
entriesOf(o) ==
    IF o.t = "array"
    THEN [i \in 1..Len(o.v) |-> <<W(ToString(i - 1)), o.v[i]>>]
    ELSE o.v

Get(o, key) ==
    LET es == entriesOf(o) IN
    IF \E i \in 1..Len(es) : es[i][1] = key
    THEN es[CHOOSE i \in 1..Len(es) : es[i][1] = key][2]
    ELSE Undefined

\* ToBoolean
truthy(x) ==
    CASE x.t \in {"undefined", "null"} -> FALSE
      [] x.t = "string" -> Len(x.v) > 0
      [] x.t = "number" -> x.v # 0
      [] x.t = "boolean" -> x.v
      [] OTHER -> TRUE

-----------------------------------------------------------------------------
(* types.ts *)

Message(field, value) ==
    <<"Validation", "failed", "for", "field">> \o field

ValidationError(field, value) ==
    [t |-> "error", class |-> "ValidationError", name |-> W("ValidationError"),
     message |-> Message(field, value), field |-> field, value |-> value]

Error(message) ==
    [t |-> "error", class |-> "Error", name |-> W("Error"), message |-> message]

isString(value) == typeof(value) = "string"

GET == <<"G", "E", "T">>
POST == <<"P", "O", "S", "T">>
PUT == <<"P", "U", "T">>
PATCH == <<"P", "A", "T", "C", "H">>
DELETE == <<"D", "E", "L", "E", "T", "E">>

HttpMethods == <<GET, POST, PUT, PATCH, DELETE>>

includes(list, s) == \E i \in 1..Len(list) : list[i] = s

isValidHttpMethod_IgnoreCase(method) ==
    isString(method)
        /\ \E i \in 1..Len(HttpMethods) :
                toLowerCase(HttpMethods[i]) = toLowerCase(method.v)

isValidHttpMethod(method) ==
    isString(method) /\ includes(HttpMethods, method.v)

-----------------------------------------------------------------------------
(* types.ts: STANDARD_HEADERS *)

STANDARD_HEADERS ==
    ("Content-Type" :> "application/json")
    @@ ("X-Content-Type-Options" :> "nosniff")
    @@ ("X-Frame-Options" :> "DENY")
    @@ ("X-XSS-Protection" :> "1; mode=block")
    @@ ("Strict-Transport-Security" :> "max-age=31536000; includeSubDomains")
    @@ ("Cache-Control" :> "no-store, no-cache, must-revalidate")
    @@ ("Pragma" :> "no-cache")

NoHeaders == [h \in {} |-> ""]

-----------------------------------------------------------------------------
(* utils.ts *)

\* JSON.stringify, the text represented by the value it denotes: properties
\* whose value is undefined are omitted, undefined array elements become null
RECURSIVE JSONStringify(_)
JSONStringify(x) ==
    CASE x.t = "object" ->
            LET kept == SelectSeq(x.v, LAMBDA e : e[2].t # "undefined")
            IN Obj([i \in 1..Len(kept) |->
                        <<kept[i][1], JSONStringify(kept[i][2])>>])
      [] x.t = "array" ->
            Arr([i \in 1..Len(x.v) |->
                    IF x.v[i].t = "undefined" THEN Null
                    ELSE JSONStringify(x.v[i])])
      [] OTHER -> x

createApiResponse_StandardWins(statusCode, body, headers) ==
    [statusCode |-> statusCode,
     headers |-> STANDARD_HEADERS @@ headers,
     body |-> JSONStringify(body)]

createApiResponse(statusCode, body, headers) ==
    [statusCode |-> statusCode,
     headers |-> headers @@ STANDARD_HEADERS,
     body |-> JSONStringify(body)]

successResponse(data, statusCode) ==
    createApiResponse(statusCode,
        Obj(<< <<W("success"), Bool(TRUE)>>, <<W("data"), data>> >>),
        NoHeaders)

errorMessageOf(error) == IF error.t = "error" THEN error.message ELSE error.v

errorNameOf_AlwaysError(error) == W("Error")

errorNameOf(error) == IF error.t = "error" THEN error.name ELSE W("Error")

\* statusCode: number = 500
statusCodeOrDefault(statusCode) ==
    IF statusCode = Undefined THEN 500 ELSE statusCode.v

\* the logger.error call of errorResponse
errorResponseLog(error, statusCode) ==
    [level |-> "error", msg |-> "API Error", statusCode |-> statusCode,
     errorName |-> errorNameOf(error), errorMessage |-> errorMessageOf(error)]

errorResponse(error, statusCode) ==
    createApiResponse(statusCode,
        Obj(<< <<W("success"), Bool(FALSE)>>,
               <<W("error"), Obj(<< <<W("name"), Str(errorNameOf(error))>>,
                                    <<W("message"), Str(errorMessageOf(error))>> >>)>> >>),
        NoHeaders)

ResourceIdRequired(kind) ==
    <<"Resource", "ID", "required", "for", kind, "operations">>

mapHttpMethodToCrudOperation_DeleteUnchecked(method, hasResourceId) ==
    CASE method = GET -> Ok("READ")
      [] method = POST -> Ok("CREATE")
      [] method \in {PUT, PATCH} ->
            IF hasResourceId THEN Ok("UPDATE")
            ELSE Err(ValidationError(W("resourceId"), Str(ResourceIdRequired("update"))))
      [] method = DELETE -> Ok("DELETE")
      [] OTHER -> Err(Error(<<"Unsupported", "HTTP", "method", ":">> \o method))

mapHttpMethodToCrudOperation(method, hasResourceId) ==
    CASE method = GET -> Ok("READ")
      [] method = POST -> Ok("CREATE")
      [] method \in {PUT, PATCH} ->
            IF hasResourceId THEN Ok("UPDATE")
            ELSE Err(ValidationError(W("resourceId"), Str(ResourceIdRequired("update"))))
      [] method = DELETE ->
            IF hasResourceId THEN Ok("DELETE")
            ELSE Err(ValidationError(W("resourceId"), Str(ResourceIdRequired("delete"))))
      [] OTHER -> Err(Error(<<"Unsupported", "HTTP", "method", ":">> \o method))

idParameterNames ==
    << <<"i", "d">>,
       <<"r", "e", "s", "o", "u", "r", "c", "e", "I", "d">>,
       <<"i", "t", "e", "m", "I", "d">>,
       <<"e", "n", "t", "i", "t", "y", "I", "d">> >>

usable_AllowEmpty(value) == isString(value)

usable(value) == isString(value) /\ Len(value.v) > 0

\* a single scan in insertion order
extractResourceId_ScanOnly(ev) ==
    LET pathParameters == ev.pathParameters IN
    IF ~truthy(pathParameters) THEN Undefined
    ELSE
        LET entries == entriesOf(pathParameters)
            idLike == {i \in 1..Len(entries) :
                        /\ contains(toLowerCase(entries[i][1]), <<"i", "d">>)
                        /\ usable(entries[i][2])}
        IN  IF idLike # {}
            THEN entries[CHOOSE i \in idLike : \A j \in idLike : i <= j][2]
            ELSE Undefined

\* the fallback scan compares the key as written
extractResourceId_CaseSensitive(ev) ==
    LET pathParameters == ev.pathParameters IN
    IF ~truthy(pathParameters) THEN Undefined
    ELSE
        LET named == {i \in 1..Len(idParameterNames) :
                        usable(Get(pathParameters, idParameterNames[i]))}
            entries == entriesOf(pathParameters)
            idLike == {i \in 1..Len(entries) :
                        /\ contains(entries[i][1], <<"i", "d">>)
                        /\ usable(entries[i][2])}
            first(S) == CHOOSE i \in S : \A j \in S : i <= j
        IN  IF named # {} THEN Get(pathParameters, idParameterNames[first(named)])
            ELSE IF idLike # {} THEN entries[first(idLike)][2]
            ELSE Undefined

extractResourceId(ev) ==
    LET pathParameters == ev.pathParameters IN
    IF ~truthy(pathParameters) THEN Undefined
    ELSE
        LET named == {i \in 1..Len(idParameterNames) :
                        usable(Get(pathParameters, idParameterNames[i]))}
            entries == entriesOf(pathParameters)
            idLike == {i \in 1..Len(entries) :
                        /\ contains(toLowerCase(entries[i][1]), <<"i", "d">>)
                        /\ usable(entries[i][2])}
            first(S) == CHOOSE i \in S : \A j \in S : i <= j
        IN  IF named # {} THEN Get(pathParameters, idParameterNames[first(named)])
            ELSE IF idLike # {} THEN entries[first(idLike)][2]
            ELSE Undefined

\* JSON.parse on the body texts of the model: a text is a sequence of JSON
\* lexemes, the table gives the value it denotes (None: SyntaxError thrown)
BodySamples ==
    << [text |-> <<"{", "\"name\"", ":", "\"ab\"", ",", "\"price\"", ":", "29", "}">>,
        parse |-> Obj(<< <<<<"n", "a", "m", "e">>, Str(<<"a", "b">>)>>,
                         <<<<"p", "r", "i", "c", "e">>, Num(29)>> >>)],
       [text |-> <<"{", "invalid", "json", "}">>, parse |-> None],
       [text |-> <<"\"not an object\"">>,
        parse |-> Str(<<"n", "o", "t", "SP", "a", "n", "SP",
                        "o", "b", "j", "e", "c", "t">>)],
       [text |-> <<"[", "1", ",", "\"a\\u0000\"", "]">>,
        parse |-> Arr(<<Num(1), Str(<<"a", "NUL">>)>>)],
       [text |-> <<"{", "\"name\"", ":", "\"a\\u0000b\\u009f\"", "}">>,
        parse |-> Obj(<< <<<<"n", "a", "m", "e">>, Str(<<"a", "NUL", "b", "APC">>)>> >>)],
       [text |-> <<"{", "\"user\"", ":", "{", "\"\"", ":", "\"x\"", "}", "}">>,
        parse |-> Obj(<< <<<<"u", "s", "e", "r">>,
                           Obj(<< <<<<>>, Str(<<"x">>)>> >>)>> >>)],
       [text |-> <<"{", "\"user\"", ":", "{", "\"bio\"", ":", "\"d\\u001f\"", "}",
                   ",", "\"n\"", ":", "null", ",", "\"ok\"", ":", "true", "}">>,
        parse |-> Obj(<< <<<<"u", "s", "e", "r">>,
                           Obj(<< <<<<"b", "i", "o">>, Str(<<"d", "US">>)>> >>)>>,
                         <<<<"n">>, Null>>,
                         <<<<"o", "k">>, Bool(TRUE)>> >>)],
       [text |-> <<"null">>, parse |-> Null],
       [text |-> <<"[", "1", ",", "2", ",", "3", "]">>,
        parse |-> Arr(<<Num(1), Num(2), Num(3)>>)],
       [text |-> <<"42">>, parse |-> Num(42)],
       [text |-> <<"true">>, parse |-> Bool(TRUE)],
       [text |-> <<"{", "\"a\"", ":">>, parse |-> None],
       [text |-> <<"{", "}">>, parse |-> Obj(<<>>)] >>

JSONParse(text) ==
    BodySamples[CHOOSE i \in 1..Len(BodySamples) : BodySamples[i].text = text].parse

SyntaxErrorMessage == <<"Unexpected", "token">>

parseRequestBody_ObjectsOnly(body) ==
    IF ~truthy(body) THEN Ok(Obj(<<>>))
    ELSE IF JSONParse(body.v) # None /\ JSONParse(body.v).t = "object"
    THEN Ok(JSONParse(body.v))
    ELSE Err(ValidationError(W("body"),
                Str(<<"Invalid", "JSON", ":">> \o SyntaxErrorMessage)))

parseRequestBody_Lenient(body) ==
    IF ~truthy(body) THEN Ok(Obj(<<>>))
    ELSE IF JSONParse(body.v) # None THEN Ok(JSONParse(body.v))
    ELSE Ok(Obj(<<>>))

parseRequestBody(body) ==
    IF ~truthy(body) THEN Ok(Obj(<<>>))
    ELSE IF JSONParse(body.v) # None THEN Ok(JSONParse(body.v))
    ELSE Err(ValidationError(W("body"),
                Str(<<"Invalid", "JSON", ":">> \o SyntaxErrorMessage)))

LambdaContext ==
    [awsRequestId |-> "test-aws-request-id", functionName |-> "test-function"]

\* ${x} in a template literal
ToText(x) ==
    CASE x.t = "string" -> x.v
      [] x.t = "number" -> W(ToString(x.v))
      [] x.t = "boolean" -> W(IF x.v THEN "true" ELSE "false")
      [] x.t \in {"undefined", "null"} -> W(x.t)
      [] OTHER -> W("[object Object]")

InvalidHttpMethod(method) == <<"Invalid", "HTTP", "method", ":">> \o ToText(method)

createRequestContext_AssumeId(ev, context) ==
    LET method == ev.requestContext.http.method IN
    IF ~isValidHttpMethod(method)
    THEN Err(ValidationError(W("method"), Str(InvalidHttpMethod(method))))
    ELSE
        LET resourceId == extractResourceId(ev)
            operationResult == mapHttpMethodToCrudOperation(method.v, TRUE)
        IN  IF ~operationResult.ok THEN operationResult
            ELSE [ok |-> TRUE,
                  value |-> [event |-> ev, context |-> context,
                             operation |-> operationResult.value,
                             resourceId |-> resourceId]]

createRequestContext_ClassifyFirst(ev, context) ==
    LET method == ev.requestContext.http.method
        resourceId == extractResourceId(ev)
        operationResult ==
            mapHttpMethodToCrudOperation(ToText(method), resourceId # Undefined)
    IN  IF ~operationResult.ok THEN operationResult
        ELSE [ok |-> TRUE,
              value |-> [event |-> ev, context |-> context,
                         operation |-> operationResult.value,
                         resourceId |-> resourceId]]

createRequestContext(ev, context) ==
    LET method == ev.requestContext.http.method IN
    IF ~isValidHttpMethod(method)
    THEN Err(ValidationError(W("method"), Str(InvalidHttpMethod(method))))
    ELSE
        LET resourceId == extractResourceId(ev)
            operationResult ==
                mapHttpMethodToCrudOperation(method.v, resourceId # Undefined)
        IN  IF ~operationResult.ok THEN operationResult
            ELSE [ok |-> TRUE,
                  value |-> [event |-> ev, context |-> context,
                             operation |-> operationResult.value,
                             resourceId |-> resourceId]]

\* the logger.info call of logRequest (path, source and account fields of the
\* event are constant data and are left out)
logRequest(context) ==
    [level |-> "info", msg |-> "Incoming request",
     operation |-> context.operation,
     resourceId |-> context.resourceId,
     method |-> context.event.requestContext.http.method,
     hasBody |-> truthy(context.event.body),
     bodyLength |-> IF context.event.body.t = "string"
                    THEN Len(context.event.body.v) ELSE 0]

MAX_INPUT_LENGTH == 10000

\* the character class [\x00-\x1F\x7F-\x9F]
IsControl(c) == CodeUnit(c) \in (0..31) \cup (127..159)

\* /[\x00-\x1F\x7F-\x9F]/ without the g flag: only the first match goes
sanitizeInput_FirstMatchOnly(input) ==
    LET hits == {i \in 1..Len(input) : IsControl(input[i])}
        h == CHOOSE i \in hits : \A j \in hits : i <= j
        sanitized == IF hits = {} THEN input
                     ELSE SubSeq(input, 1, h - 1) \o SubSeq(input, h + 1, Len(input))
    IN  IF Len(sanitized) > MAX_INPUT_LENGTH
        THEN substring(sanitized, MAX_INPUT_LENGTH)
        ELSE sanitized

sanitizeInput_TruncateFirst(input) ==
    SelectSeq(substring(input, MAX_INPUT_LENGTH), LAMBDA c : ~IsControl(c))

sanitizeInput(input) ==
    LET sanitized == SelectSeq(input, LAMBDA c : ~IsControl(c)) IN
    IF Len(sanitized) > MAX_INPUT_LENGTH
    THEN substring(sanitized, MAX_INPUT_LENGTH)
    ELSE sanitized

MAX_KEY_LENGTH == 100

invalidKey_AtLimit(key) == Len(key) = 0 \/ Len(key) >= MAX_KEY_LENGTH

\* !isString(key) || key.length === 0 || key.length > 100 (keys are strings)
invalidKey(key) == Len(key) = 0 \/ Len(key) > MAX_KEY_LENGTH

RECURSIVE validateAndSanitizeObject(_)
RECURSIVE sanitizeEntries(_)

\* the loop over Object.entries(obj) and the final return
sanitizeEntries(obj) ==
    LET entries == entriesOf(obj)
        key(i) == entries[i][1]
        value(i) == entries[i][2]
        item(i) ==
            IF isString(value(i)) THEN Ok(Str(sanitizeInput(value(i).v)))
            ELSE IF typeof(value(i)) = "object" /\ value(i).t # "null"
            THEN validateAndSanitizeObject(value(i))
            ELSE Ok(value(i))
        failing == {i \in 1..Len(entries) : invalidKey(key(i)) \/ ~item(i).ok}
        stop == CHOOSE i \in failing : \A j \in failing : i <= j
    IN  IF failing # {}
        THEN IF invalidKey(key(stop))
             THEN Err(ValidationError(W("key"),
                        Str(<<"Invalid", "key", ":">> \o key(stop))))
             ELSE item(stop)
        ELSE Ok(Obj([i \in 1..Len(entries) |-> <<key(i), item(i).value>>]))

\* a value that is not an object is taken as an empty object
validateAndSanitizeObject_LenientGuard(obj) ==
    IF typeof(obj) # "object" \/ obj.t = "null"
    THEN Ok(Obj(<<>>))
    ELSE sanitizeEntries(obj)

validateAndSanitizeObject(obj) ==
    IF typeof(obj) # "object" \/ obj.t = "null"
    THEN Err(ValidationError(W("object"), Str(<<"Expected", "an", "object">>)))
    ELSE sanitizeEntries(obj)

-----------------------------------------------------------------------------
(* index.ts: handler *)

TypeError ==
    [t |-> "error", class |-> "TypeError", name |-> W("TypeError"),
     message |-> <<"Cannot", "read", "properties", "of", "undefined">>]

Now == Str(W("<now>"))

\* a throw outside the try block leaves the handler
Escape ==
    /\ thrown' = fault.error
    /\ pc' = "escaped"

\* a throw inside the try block
Throw ==
    /\ thrown' = fault.error
    /\ pc' = "catch"

\* logger.addPersistentLogAttributes(...), before the try block
AttachLogAttributes ==
    /\ pc = "start"
    /\ IF fault.at = "attach"
       THEN Escape /\ UNCHANGED attrs
       ELSE attrs' = TRUE /\ pc' = "getSegment" /\ UNCHANGED thrown
    /\ UNCHANGED <<fault, call, event, segment, closed, logs, console, ctxResult,
                   parsed, requestBody, response>>

\* const segment = tracer.getSegment(): a segment or undefined
GetSegment ==
    /\ pc = "getSegment"
    /\ IF fault.at = "getSegment"
       THEN Escape /\ UNCHANGED segment
       ELSE /\ \E s \in BOOLEAN : segment' = s
            /\ pc' = "createContext"
            /\ UNCHANGED thrown
    /\ UNCHANGED <<fault, call, event, closed, attrs, logs, console, ctxResult,
                   parsed, requestBody, response>>

ReturnError_Silent(error, statusCode) ==
    /\ logs' = logs
    /\ response' = errorResponse(error, statusCode)
    /\ pc' = "finally"

\* return errorResponse(error, statusCode) inside the try block
ReturnError(error, statusCode) ==
    /\ logs' = Append(logs, errorResponseLog(error, statusCode))
    /\ response' = errorResponse(error, statusCode)
    /\ pc' = "finally"

\* createRequestContext(event, context) and the return on failure; reading
\* the method of an event without requestContext throws
CreateContext ==
    /\ pc = "createContext"
    /\ IF event.requestContext = Undefined
       THEN /\ thrown' = TypeError
            /\ pc' = "catch"
            /\ UNCHANGED <<ctxResult, logs, response>>
       ELSE /\ ctxResult' = createRequestContext(event, LambdaContext)
            /\ thrown' = thrown
            /\ IF ~ctxResult'.ok
               THEN ReturnError(ctxResult'.error, 400)
               ELSE pc' = "logRequest" /\ UNCHANGED <<logs, response>>
    /\ UNCHANGED <<fault, call, event, segment, closed, attrs, console, parsed,
                   requestBody>>

LogRequest_BodyOnlyForWrites ==
    /\ pc = "logRequest"
    /\ IF fault.at = "logRequest"
       THEN Throw /\ UNCHANGED logs
       ELSE /\ logs' = Append(logs, logRequest(ctxResult.value))
            /\ pc' = IF truthy(event.body)
                         /\ ctxResult.value.operation \in {"CREATE", "UPDATE"}
                      THEN "parseBody" ELSE "dispatch"
            /\ UNCHANGED thrown
    /\ UNCHANGED <<fault, call, event, segment, closed, attrs, console, ctxResult,
                   parsed, requestBody, response>>

LogRequest_Skipped ==
    /\ pc = "logRequest"
    /\ IF fault.at = "logRequest"
       THEN Throw /\ UNCHANGED logs
       ELSE /\ logs' = logs
            /\ pc' = IF truthy(event.body) THEN "parseBody" ELSE "dispatch"
            /\ UNCHANGED thrown
    /\ UNCHANGED <<fault, call, event, segment, closed, attrs, console, ctxResult,
                   parsed, requestBody, response>>

LogRequest ==
    /\ pc = "logRequest"
    /\ IF fault.at = "logRequest"
       THEN Throw /\ UNCHANGED logs
       ELSE /\ logs' = Append(logs, logRequest(ctxResult.value))
            /\ pc' = IF truthy(event.body) THEN "parseBody" ELSE "dispatch"
            /\ UNCHANGED thrown
    /\ UNCHANGED <<fault, call, event, segment, closed, attrs, console, ctxResult,
                   parsed, requestBody, response>>

ParseBody ==
    /\ pc = "parseBody"
    /\ parsed' = parseRequestBody(event.body)
    /\ IF ~parsed'.ok
       THEN ReturnError(parsed'.error, 400)
       ELSE pc' = "sanitize" /\ UNCHANGED <<logs, response>>
    /\ UNCHANGED <<fault, call, event, segment, closed, attrs, console, ctxResult,
                   requestBody, thrown>>

SanitizeBody ==
    /\ pc = "sanitize"
    /\ LET sanitizeResult == validateAndSanitizeObject(parsed.value) IN
       IF ~sanitizeResult.ok
       THEN ReturnError(sanitizeResult.error, 400) /\ UNCHANGED requestBody
       ELSE /\ requestBody' = sanitizeResult.value
            /\ pc' = "dispatch"
            /\ UNCHANGED <<logs, response>>
    /\ UNCHANGED <<fault, call, event, segment, closed, attrs, console, ctxResult,
                   parsed, thrown>>

bodyView(body) ==
    IF truthy(body) /\ Len(body.v) > 0
    THEN JSONStringify(body) ELSE Str(W("(empty)"))

Branch_FallThrough(operation, view) ==
    /\ pc = "dispatch"
    /\ ctxResult.value.operation = operation
    /\ IF fault.at = "branch"
       THEN Throw /\ UNCHANGED console
       ELSE /\ console' = console \o <<view, [op |-> "DELETE",
                                               resourceId |-> ctxResult.value.resourceId]>>
            /\ pc' = "success"
            /\ UNCHANGED thrown
    /\ UNCHANGED <<fault, call, event, segment, closed, attrs, logs, ctxResult,
                   parsed, requestBody, response>>

\* switch (requestContext.operation): one case, then break
Branch(operation, view) ==
    /\ pc = "dispatch"
    /\ ctxResult.value.operation = operation
    /\ IF fault.at = "branch"
       THEN Throw /\ UNCHANGED console
       ELSE console' = Append(console, view) /\ pc' = "success" /\ UNCHANGED thrown
    /\ UNCHANGED <<fault, call, event, segment, closed, attrs, logs, ctxResult,
                   parsed, requestBody, response>>

handleCreate ==
    Branch("CREATE", [op |-> "CREATE", body |-> bodyView(requestBody)])

handleRead ==
    Branch("READ",
           [op |-> "READ",
            resourceId |-> IF truthy(ctxResult.value.resourceId)
                           THEN ctxResult.value.resourceId
                           ELSE Str(W("(not specified - list operation)"))])

handleUpdate ==
    Branch("UPDATE",
           [op |-> "UPDATE", resourceId |-> ctxResult.value.resourceId,
            body |-> bodyView(requestBody)])

handleDelete ==
    Branch("DELETE", [op |-> "DELETE", resourceId |-> ctxResult.value.resourceId])

ReturnSuccess ==
    /\ pc = "success"
    /\ IF fault.at = "success"
       THEN Throw /\ UNCHANGED response
       ELSE /\ response' =
                 successResponse(
                    Obj(<< <<W("message"),
                             Str(<<ctxResult.value.operation, "operation", "logged",
                                   "successfully">>)>>,
                           <<W("operation"), Str(W(ctxResult.value.operation))>>,
                           <<W("resourceId"), ctxResult.value.resourceId>>,
                           <<W("timestamp"), Now>> >>),
                    200)
            /\ pc' = "finally"
            /\ UNCHANGED thrown
    /\ UNCHANGED <<fault, call, event, segment, closed, attrs, logs, console,
                   ctxResult, parsed, requestBody>>

CatchStatus_NotFoundFallback(error) ==
    CASE error.t # "error" -> 500
      [] error.class = "ValidationError" -> 400
      [] error.class = "AuthorizationError" -> 403
      [] OTHER -> 404

CatchStatus(error) ==
    CASE error.t # "error" -> 500
      [] error.class = "ValidationError" -> 400
      [] error.class = "AuthorizationError" -> 403
      [] error.class = "NotFoundError" -> 404
      [] OTHER -> 500

Catch_RawThrown ==
    /\ pc = "catch"
    /\ LET status == CatchStatus(thrown)
           unexpected ==
               [level |-> "error", msg |-> "Unexpected error in Lambda handler",
                error |-> IF thrown.t = "error" THEN thrown.message
                          ELSE <<"Unknown", "error">>]
       IN  /\ logs' = (IF status = 500 THEN Append(logs, unexpected) ELSE logs)
                        \o <<errorResponseLog(thrown, status)>>
           /\ response' = errorResponse(thrown, status)
    /\ pc' = "finally"
    /\ thrown' = None
    /\ UNCHANGED <<fault, call, event, segment, closed, attrs, console, ctxResult,
                   parsed, requestBody>>

Catch ==
    /\ pc = "catch"
    /\ LET status == CatchStatus(thrown)
           error == IF thrown.t = "error" THEN thrown
                    ELSE Error(<<"Internal", "server", "error">>)
           unexpected ==
               [level |-> "error", msg |-> "Unexpected error in Lambda handler",
                error |-> IF thrown.t = "error" THEN thrown.message
                          ELSE <<"Unknown", "error">>]
       IN  /\ logs' = (IF status = 500 THEN Append(logs, unexpected) ELSE logs)
                        \o <<errorResponseLog(error, status)>>
           /\ response' = errorResponse(error, status)
    /\ pc' = "finally"
    /\ thrown' = None
    /\ UNCHANGED <<fault, call, event, segment, closed, attrs, console, ctxResult,
                   parsed, requestBody>>

Finally_NoClose ==
    /\ pc = "finally"
    /\ closed' = closed
    /\ pc' = "returned"
    /\ UNCHANGED <<fault, call, event, segment, attrs, logs, console, ctxResult,
                   parsed, requestBody, thrown, response>>

\* finally { if (segment) segment.close(); } and the return of the response
Finally ==
    /\ pc = "finally"
    /\ closed' = IF segment THEN closed + 1 ELSE closed
    /\ pc' = "returned"
    /\ UNCHANGED <<fault, call, event, segment, attrs, logs, console, ctxResult,
                   parsed, requestBody, thrown, response>>

-----------------------------------------------------------------------------
(* Inputs *)

CONNECT == <<"C", "O", "N", "N", "E", "C", "T">>
OPTIONS == <<"O", "P", "T", "I", "O", "N", "S">>

\* method strings an event can carry
EventMethods ==
    {Str(HttpMethods[i]) : i \in 1..Len(HttpMethods)}
        \cup {Str(CONNECT), Str(OPTIONS), Str(toLowerCase(GET))}

\* values handed to the type guard
GuardValues ==
    EventMethods
        \cup {Str(<<"H", "E", "A", "D">>), Str(<<"T", "R", "A", "C", "E">>),
              Str(toLowerCase(DELETE)), Str(<<>>), Str(<<"G", "E", "T", "SP">>),
              Num(123), Null, Undefined, Bool(TRUE)}

ParamKeys ==
    {idParameterNames[i] : i \in 1..Len(idParameterNames)}
        \cup { <<"u", "s", "e", "r", "I", "D">>,
               <<"w", "i", "d", "t", "h">>,
               <<"n", "a", "m", "e">> }

ParamValues == {Undefined, Str(<<>>), Str(<<"A">>), Str(<<"B">>)}

\* path parameters with at most n entries, in every insertion order
PathParameters(n) ==
    {Undefined} \cup
    UNION { { Obj(es) : es \in { f \in [1..k -> ParamKeys \X ParamValues] :
                                   \A i, j \in 1..k : i # j => f[i][1] # f[j][1] } }
            : k \in 0..n }

Bodies ==
    {Undefined, Str(<<>>)}
        \cup {Str(BodySamples[i].text) : i \in 1..Len(BodySamples)}

\* what a throwing library call can raise: an Error, or a value that is none
Throwables == {Error(<<"boom">>), Str(<<"boom">>)}

NoFault == [at |-> "none"]

Faults ==
    {NoFault} \cup
    {[at |-> step, error |-> e] :
        step \in {"attach", "getSegment", "logRequest", "branch", "success"},
        e \in Throwables}

Events ==
    [requestContext : {Undefined} \cup {[http |-> [method |-> m]] : m \in EventMethods},
     pathParameters : PathParameters(MaxHandlerParams),
     body : Bodies]

\* events of the invocations in which a library call throws
FaultEvents ==
    {ev \in Events :
        ev.pathParameters \in {Undefined, Obj(<< <<idParameterNames[1], Str(<<"A">>)>> >>)}}

Chars == {"NUL", "US", "SP", "a", "~", "DEL", "APC", "NBSP"}

Strings(n) == UNION { [1..k -> Chars] : k \in 0..n }

Repeat(c, n) == [i \in 1..n |-> c]

\* strings around the length limit: a short head, a run of one character, a
\* short tail
LongStrings ==
    { head \o Repeat("a", n) \o tail :
        head \in Strings(1), tail \in Strings(1),
        n \in (MAX_INPUT_LENGTH - 1)..(MAX_INPUT_LENGTH + MaxOver) }

MaxDepth == 1

Leaves ==
    {Str(<<"a">>), Str(<<"NUL", "a", "DEL", "b">>), Num(1), Bool(TRUE), Null}

Keys == { <<"k">>, <<>>, Repeat("x", MAX_KEY_LENGTH), Repeat("x", MAX_KEY_LENGTH + 1) }

\* values nested d levels deep, each container holding at most one member
RECURSIVE Nested(_)
Nested(d) ==
    IF d = 0 THEN Leaves
    ELSE Leaves \cup {Obj(<<>>), Arr(<<>>)}
            \cup {Obj(<< <<k, v>> >>) : k \in Keys, v \in Nested(d - 1)}
            \cup {Arr(<<v>>) : v \in Nested(d - 1)}

\* inputs of validateAndSanitizeObject: any nested value, and objects and
\* arrays of two members
SanitizerInputs ==
    Nested(MaxDepth + 1)
        \cup {Obj(<< <<kk[1], v1>>, <<kk[2], v2>> >>) :
                kk \in {p \in Keys \X Keys : p[1] # p[2]},
                v1 \in Nested(MaxDepth), v2 \in Nested(1)}
        \cup {Arr(<<v1, v2>>) : v1 \in Nested(MaxDepth), v2 \in Leaves}

FieldNames == {W("email"), W("resourceId"), W("method"), <<>>}

FieldValues ==
    {Str(<<"i", "n", "v", "a", "l", "i", "d">>), Str(<<>>), Undefined, Null,
     Num(42), Obj(<< <<<<"k", "e", "y">>, Str(<<"v">>)>> >>)}

\* headers handed to createApiResponse
ExtraHeaders ==
    {NoHeaders,
     "X-Custom" :> "value",
     "Content-Type" :> "text/plain",
     ("X-Custom" :> "value") @@ ("Cache-Control" :> "max-age=60"),
     ("Pragma" :> "no-cache") @@ ("X-Frame-Options" :> "SAMEORIGIN")}

ResponseBodies ==
    {Obj(<< <<W("message"), Str(W("test"))>> >>),
     Obj(<< <<W("error"), Str(<<"Not", "found">>)>> >>),
     Obj(<< <<W("data"), Undefined>> >>)}

StatusCodes == {200, 201, 400, 404, 500}

ErrorInputs ==
    {Error(<<"Something", "went", "wrong">>),
     ValidationError(W("email"), Str(W("invalid"))),
     Str(<<"Simple", "error", "message">>),
     Str(<<>>)}

Calls ==
    {[fn |-> "isValidHttpMethod", args |-> <<v>>] : v \in GuardValues}
    \cup {[fn |-> "ValidationError", args |-> <<f, v>>] :
            f \in FieldNames, v \in FieldValues}
    \cup {[fn |-> "mapHttpMethodToCrudOperation", args |-> <<HttpMethods[i], h>>] :
            i \in 1..Len(HttpMethods), h \in BOOLEAN}
    \cup {[fn |-> "extractResourceId", args |-> <<[pathParameters |-> p]>>] :
            p \in PathParameters(MaxParams)}
    \cup {[fn |-> "createRequestContext",
           args |-> <<[requestContext |-> [http |-> [method |-> m]],
                       pathParameters |-> p, body |-> Undefined]>>] :
            m \in EventMethods, p \in PathParameters(1)}
    \cup {[fn |-> "sanitizeInput", args |-> <<s>>] :
            s \in Strings(MaxShort) \cup LongStrings}
    \cup {[fn |-> "validateAndSanitizeObject", args |-> <<x>>] :
            x \in SanitizerInputs}
    \cup {[fn |-> "parseRequestBody", args |-> <<b>>] : b \in Bodies}
    \cup {[fn |-> "createApiResponse", args |-> <<c, b, h>>] :
            c \in StatusCodes, b \in ResponseBodies, h \in ExtraHeaders}
    \cup {[fn |-> "errorResponse", args |-> <<e, c>>] :
            e \in ErrorInputs,
            c \in {Undefined} \cup {Num(n) : n \in StatusCodes \ {200, 201}}}

-----------------------------------------------------------------------------
(* One invocation of the handler *)

NoCall == [fn |-> "none", args |-> <<>>, done |-> TRUE, result |-> None]

Init ==
    /\ call = NoCall
    /\ fault \in Faults
    /\ event \in (IF fault = NoFault THEN Events ELSE FaultEvents)
    /\ pc = "start"
    /\ segment = FALSE
    /\ closed = 0
    /\ attrs = FALSE
    /\ logs = <<>>
    /\ console = <<>>
    /\ ctxResult = None
    /\ parsed = None
    /\ requestBody = Undefined
    /\ thrown = None
    /\ response = None

Next ==
    \/ AttachLogAttributes
    \/ GetSegment
    \/ CreateContext
    \/ LogRequest
    \/ ParseBody
    \/ SanitizeBody
    \/ handleCreate
    \/ handleRead
    \/ handleUpdate
    \/ handleDelete
    \/ ReturnSuccess
    \/ Catch
    \/ Finally

Spec == Init /\ [][Next]_vars

-----------------------------------------------------------------------------
(* Direct applications of the exported functions *)

InitUnit ==
    /\ call \in {[fn |-> c.fn, args |-> c.args, done |-> FALSE, result |-> None] :
                    c \in Calls}
    /\ fault = NoFault
    /\ event = [requestContext |-> Undefined, pathParameters |-> Undefined,
                body |-> Undefined]
    /\ pc = "idle"
    /\ segment = FALSE
    /\ closed = 0
    /\ attrs = FALSE
    /\ logs = <<>>
    /\ console = <<>>
    /\ ctxResult = None
    /\ parsed = None
    /\ requestBody = Undefined
    /\ thrown = None
    /\ response = None

Apply(fn, result) ==
    /\ call.fn = fn
    /\ ~call.done
    /\ call' = [call EXCEPT !.done = TRUE, !.result = result]
    /\ UNCHANGED hvars

ApplyIsValidHttpMethod ==
    Apply("isValidHttpMethod", Bool(isValidHttpMethod(call.args[1])))

ApplyValidationError ==
    Apply("ValidationError", ValidationError(call.args[1], call.args[2]))

ApplyMapHttpMethodToCrudOperation ==
    Apply("mapHttpMethodToCrudOperation",
          mapHttpMethodToCrudOperation(call.args[1], call.args[2]))

ApplyExtractResourceId ==
    Apply("extractResourceId", extractResourceId(call.args[1]))

ApplyCreateRequestContext ==
    Apply("createRequestContext",
          createRequestContext(call.args[1], LambdaContext))

ApplySanitizeInput ==
    Apply("sanitizeInput", Str(sanitizeInput(call.args[1])))

ApplyValidateAndSanitizeObject ==
    Apply("validateAndSanitizeObject", validateAndSanitizeObject(call.args[1]))

\* validateAndSanitizeObject applied to the value a first application returned
ApplyValidateAndSanitizeObjectAgain ==
    /\ call.fn = "validateAndSanitizeObject"
    /\ call.done
    /\ call.result.ok
    /\ call' = [fn |-> "validateAndSanitizeObject again",
                args |-> <<call.result.value>>, input |-> call.args[1],
                done |-> TRUE,
                result |-> validateAndSanitizeObject(call.result.value)]
    /\ UNCHANGED hvars

ApplyParseRequestBody ==
    Apply("parseRequestBody", parseRequestBody(call.args[1]))

ApplyCreateApiResponse ==
    Apply("createApiResponse",
          createApiResponse(call.args[1], call.args[2], call.args[3]))

\* errorResponse writes its log record before it returns
ApplyErrorResponse ==
    /\ call.fn = "errorResponse"
    /\ ~call.done
    /\ LET statusCode == statusCodeOrDefault(call.args[2]) IN
        /\ logs' = Append(logs, errorResponseLog(call.args[1], statusCode))
        /\ call' = [call EXCEPT !.done = TRUE,
                                !.result = errorResponse(call.args[1], statusCode)]
    /\ UNCHANGED <<fault, event, pc, segment, closed, attrs, console, ctxResult,
                   parsed, requestBody, thrown, response>>

NextUnit ==
    \/ ApplyIsValidHttpMethod
    \/ ApplyValidationError
    \/ ApplyMapHttpMethodToCrudOperation
    \/ ApplyExtractResourceId
    \/ ApplyCreateRequestContext
    \/ ApplySanitizeInput
    \/ ApplyValidateAndSanitizeObject
    \/ ApplyValidateAndSanitizeObjectAgain
    \/ ApplyParseRequestBody
    \/ ApplyCreateApiResponse
    \/ ApplyErrorResponse

SpecUnit == InitUnit /\ [][NextUnit]_vars

-----------------------------------------------------------------------------
(* Invocations and direct applications together *)

InitAll == Init \/ InitUnit

NextAll == Next \/ NextUnit

SpecAll == InitAll /\ [][NextAll]_vars

-----------------------------------------------------------------------------
(* ApiGatewayEventHandler.java: one invocation of handleRequest.  The       *)
(* invocation's event and context are held in call.args, Java null is Null, *)
(* a java.util.Map is a function wrapped in a tagged record.                *)

JMap(m) == [t |-> "map", m |-> m]

\* String.toUpperCase
toUpperCase(s) ==
    [i \in 1..Len(s) |->
        IF \E j \in 1..26 : LowerCase[j] = s[i]
        THEN UpperCase[CHOOSE j \in 1..26 : LowerCase[j] = s[i]]
        ELSE s[i]]

NullPointerException ==
    [t |-> "error", class |-> "NullPointerException",
     name |-> W("NullPointerException"), message |-> <<>>]

determineCrudOperation(httpMethod) ==
    LET m == toUpperCase(httpMethod) IN
    CASE m = GET -> "READ"
      [] m = POST -> "CREATE"
      [] m \in {PUT, PATCH} -> "UPDATE"
      [] m = DELETE -> "DELETE"
      [] OTHER -> "UNKNOWN"

\* the keys sanitizeHeaders removes
authorization == <<"a", "u", "t", "h", "o", "r", "i", "z", "a", "t", "i", "o", "n">>
xApiKey == <<"x", "-", "a", "p", "i", "-", "k", "e", "y">>
cookie == <<"c", "o", "o", "k", "i", "e">>

\* a copy of the map without the three keys
sanitizeHeaders(headers) ==
    JMap([k \in DOMAIN headers.m \ {authorization, xApiKey, cookie} |-> headers.m[k]])

createResponseHeaders_VersionOnly ==
    "X-Lambda-Function-Version" :> "$LATEST"

createResponseHeaders ==
    ("Content-Type" :> "application/json")
        @@ ("X-Lambda-Function-Version" :> "$LATEST")

\* objectMapper.writeValueAsString(responseBody), as JSON lexemes in the
\* iteration order of the HashMap
SuccessBody(requestId) ==
    <<"{", "\"requestId\"", ":", "\"", requestId, "\"", ",",
      "\"message\"", ":", "\"Request logged successfully\"", ",",
      "\"timestamp\"", ":", "<currentTimeMillis>", "}">>

\* the concatenation of the catch block
FailureBody(requestId) ==
    <<"{", "\"error\"", ":", "\"Internal server error\"", ",",
      "\"requestId\"", ":", "\"", requestId, "\"", "}">>

jvars == <<fault, event, segment, closed, attrs, console, ctxResult, parsed,
           requestBody>>

\* logEventDetails(event, requestId): the lines that depend on the method and
\* the headers (the lines for path, source, account, query, body and stage
\* data are left out); a null dereference leaves the method at that point
LogEventDetails ==
    /\ pc = "java:logEventDetails"
    /\ LET ev == call.args[1]
           requestId == call.args[2].awsRequestId
       IN  IF ev = Null \/ ev.requestContext = Null \/ ev.requestContext.http = Null
           THEN /\ thrown' = NullPointerException
                /\ pc' = "java:catch"
                /\ UNCHANGED logs
           ELSE LET httpMethod == ev.requestContext.http.method
                    first ==
                        <<[level |-> "info", msg |-> "Processing {} request",
                           arg |-> httpMethod],
                          [level |-> "info", msg |-> "Request ID: {}",
                           arg |-> requestId]>>
                    headerLine ==
                        IF ev.headers # Null /\ DOMAIN ev.headers.m # {}
                        THEN <<[level |-> "info", msg |-> "Headers: {}",
                                arg |-> sanitizeHeaders(ev.headers)]>>
                        ELSE <<>>
                IN  IF httpMethod = Null
                    THEN /\ logs' = logs \o first \o headerLine
                         /\ thrown' = NullPointerException
                         /\ pc' = "java:catch"
                    ELSE /\ logs' = logs \o first \o headerLine \o
                                <<[level |-> "info", msg |-> "CRUD Operation: {}",
                                   arg |-> determineCrudOperation(httpMethod.v)]>>
                         /\ pc' = "java:respond"
                         /\ UNCHANGED thrown
    /\ UNCHANGED <<call, response>>
    /\ UNCHANGED jvars

\* the response of the try block
Respond ==
    /\ pc = "java:respond"
    /\ response' = [statusCode |-> 200, headers |-> createResponseHeaders,
                    body |-> SuccessBody(call.args[2].awsRequestId)]
    /\ call' = [call EXCEPT !.done = TRUE, !.result = response']
    /\ pc' = "java:returned"
    /\ UNCHANGED <<logs, thrown>>
    /\ UNCHANGED jvars

\* catch (Exception e)
CatchException ==
    /\ pc = "java:catch"
    /\ logs' = Append(logs, [level |-> "error", msg |-> "Error processing request: {}",
                             arg |-> call.args[2].awsRequestId])
    /\ response' = [statusCode |-> 500, headers |-> createResponseHeaders,
                    body |-> FailureBody(call.args[2].awsRequestId)]
    /\ call' = [call EXCEPT !.done = TRUE, !.result = response']
    /\ thrown' = None
    /\ pc' = "java:returned"
    /\ UNCHANGED jvars

JavaMethods ==
    {Null} \cup {Str(m) : m \in {GET, POST, PUT, PATCH, DELETE, OPTIONS,
                                 toLowerCase(GET), toLowerCase(DELETE), <<>>}}

Authorization == <<"A", "u", "t", "h", "o", "r", "i", "z", "a", "t", "i", "o", "n">>
ContentType == <<"C", "o", "n", "t", "e", "n", "t", "-", "T", "y", "p", "e">>
Cookie == <<"C", "o", "o", "k", "i", "e">>

\* header maps of incoming events
JavaHeaders ==
    {Null,
     JMap(NoHeaders),
     JMap((ContentType :> "application/json") @@ (Authorization :> "Bearer secret-token")),
     JMap((authorization :> "Bearer secret-token") @@ (xApiKey :> "key")
              @@ (cookie :> "sid=1") @@ (toLowerCase(ContentType) :> "text/plain")),
     JMap((toUpperCase(xApiKey) :> "key")),
     JMap((Cookie :> "sid=1") @@ (cookie :> "sid=2")),
     JMap((authorization :> "Bearer secret-token"))}

JavaEvents ==
    {Null}
        \cup {[requestContext |-> Null, headers |-> h] : h \in JavaHeaders}
        \cup {[requestContext |-> [http |-> Null], headers |-> h] : h \in JavaHeaders}
        \cup {[requestContext |-> [http |-> [method |-> m]], headers |-> h] :
                m \in JavaMethods, h \in JavaHeaders}

JavaContexts == {[awsRequestId |-> "test-request-id"], [awsRequestId |-> "r-2"]}

InitJava ==
    /\ call \in {[fn |-> "handleRequest", args |-> <<ev, ctx>>, done |-> FALSE,
                   result |-> None] : ev \in JavaEvents, ctx \in JavaContexts}
    /\ fault = NoFault
    /\ event = [requestContext |-> Undefined, pathParameters |-> Undefined,
                body |-> Undefined]
    /\ pc = "java:logEventDetails"
    /\ segment = FALSE
    /\ closed = 0
    /\ attrs = FALSE
    /\ logs = <<>>
    /\ console = <<>>
    /\ ctxResult = None
    /\ parsed = None
    /\ requestBody = Undefined
    /\ thrown = None
    /\ response = None

NextJava ==
    \/ LogEventDetails
    \/ Respond
    \/ CatchException

SpecJava == InitJava /\ [][NextJava]_vars

-----------------------------------------------------------------------------
(* Properties *)

Applied(fn) == call.fn = fn /\ call.done

NonEmptyString(x) == x.t = "string" /\ Len(x.v) > 0

Returned == pc = "returned"

ErrorOf(resp) == Get(resp.body, W("error"))

ErrorMessageOf(resp) == Get(ErrorOf(resp), W("message")).v

MethodOf(ev) == ev.requestContext.http.method

AcceptedMethod(m) == m.t = "string" /\ m.v \in {GET, POST, PUT, PATCH, DELETE}

\* C1: for the five accepted methods and both values of hasResourceId,
\* mapHttpMethodToCrudOperation returns READ for GET and CREATE for POST,
\* UPDATE for PUT/PATCH and DELETE for DELETE when a resource id is present,
\* and otherwise a ValidationError with field resourceId; never the generic
\* unsupported-method error.
C1_Classification ==
    Applied("mapHttpMethodToCrudOperation") =>
        LET m == call.args[1]
            h == call.args[2]
            r == call.result
            missingId == /\ ~r.ok
                         /\ r.error.class = "ValidationError"
                         /\ r.error.field = <<"resourceId">>
        IN  /\ m = GET => r = [ok |-> TRUE, value |-> "READ"]
            /\ m = POST => r = [ok |-> TRUE, value |-> "CREATE"]
            /\ (m \in {PUT, PATCH} /\ h) => r = [ok |-> TRUE, value |-> "UPDATE"]
            /\ (m = DELETE /\ h) => r = [ok |-> TRUE, value |-> "DELETE"]
            /\ (m \in {PUT, PATCH, DELETE} /\ ~h) => missingId
            /\ ~r.ok => r.error.class # "Error"

C1_Witness ==
    /\ Applied("mapHttpMethodToCrudOperation")
    /\ call.args = <<DELETE, FALSE>>
    /\ ~call.result.ok

\* C2: a PUT, PATCH or DELETE request without an extractable resource id is
\* answered with status 400, success=false and an error message containing
\* "Resource ID required".
C2_MissingIdMessage ==
    (/\ Returned
     /\ event.requestContext # Undefined
     /\ MethodOf(event) \in {Str(PUT), Str(PATCH), Str(DELETE)}
     /\ extractResourceId(event) = Undefined)
    => /\ response.statusCode = 400
       /\ Get(response.body, W("success")) = Bool(FALSE)
       /\ contains(ErrorMessageOf(response), <<"Resource", "ID", "required">>)

\* C3: isValidHttpMethod(v) is true exactly when v is a string equal to one
\* of GET, POST, PUT, PATCH, DELETE.
C3_MethodGuard ==
    Applied("isValidHttpMethod") =>
        (call.result = Bool(TRUE) <=> AcceptedMethod(call.args[1]))

C3_Witness ==
    /\ Applied("isValidHttpMethod")
    /\ call.args[1] = Str(<<"g", "e", "t">>)
    /\ call.result = Bool(FALSE)

IncomingRequestLogged ==
    \E i \in 1..Len(logs) : logs[i].msg = "Incoming request"

\* C4: when building the request context fails the handler returns a
\* status-400 failure at once: no 'Incoming request' line, no body parsing or
\* sanitizing, no operation branch; and an invalid method fails with a
\* ValidationError on field method whatever the path parameters are.
C4_ContextFailureIsTerminal ==
    (ctxResult # None /\ ~ctxResult.ok) =>
        /\ pc \in {"finally", "returned"}
        /\ response.statusCode = 400
        /\ Get(response.body, W("success")) = Bool(FALSE)
        /\ ~IncomingRequestLogged
        /\ parsed = None
        /\ requestBody = Undefined
        /\ console = <<>>
        /\ ~AcceptedMethod(MethodOf(event)) =>
              /\ ctxResult.error.class = "ValidationError"
              /\ ctxResult.error.field = <<"method">>

C4_Witness ==
    /\ Returned
    /\ ctxResult # None
    /\ ~ctxResult.ok
    /\ MethodOf(event) = Str(CONNECT)
    /\ event.body # Undefined /\ Len(event.body.v) > 0
    /\ event.pathParameters # Undefined /\ Len(event.pathParameters.v) > 0

\* C5: for a method outside the five accepted ones, the failure of
\* createRequestContext and the handler's 400 response both carry a message
\* containing "Invalid HTTP method".
C5_InvalidMethodMessage ==
    (/\ Returned
     /\ event.requestContext # Undefined
     /\ ~AcceptedMethod(MethodOf(event)))
    => /\ ~ctxResult.ok
       /\ contains(ctxResult.error.message, <<"Invalid", "HTTP", "method">>)
       /\ response.statusCode = 400
       /\ contains(ErrorMessageOf(response), <<"Invalid", "HTTP", "method">>)

\* JSON text of a value inside a template literal, as the tests of
\* ValidationError expect it in the message
RECURSIVE JSONText(_)
RECURSIVE JSONMembers(_, _)
JSONMembers(es, i) ==
    IF i > Len(es) THEN <<>>
    ELSE (IF i > 1 THEN <<",">> ELSE <<>>)
            \o <<"\"">> \o es[i][1] \o <<"\"", ":">> \o JSONText(es[i][2])
            \o JSONMembers(es, i + 1)
JSONText(v) ==
    CASE v.t = "string" -> <<"\"">> \o v.v \o <<"\"">>
      [] v.t = "number" -> <<ToString(v.v)>>
      [] v.t = "object" -> <<"{">> \o JSONMembers(v.v, 1) \o <<"}">>
      [] OTHER -> <<v.t>>

\* C6: a ValidationError built from (f, v) has name ValidationError, field f,
\* value v and the message 'Validation failed for field <f> with value:
\* <JSON text of v>'.
C6_ValidationErrorMessage ==
    Applied("ValidationError") =>
        LET f == call.args[1]
            v == call.args[2]
            e == call.result
        IN  /\ e.name = <<"ValidationError">>
            /\ e.field = f
            /\ e.value = v
            /\ e.message = <<"Validation", "failed", "for", "field">> \o f
                              \o <<"with", "value", ":">> \o JSONText(v)

ParamsOf(c) == c.args[1].pathParameters

\* the value stored under a key of a path-parameter mapping
ParamValue(p, k) ==
    IF \E i \in 1..Len(p.v) : p.v[i][1] = k
    THEN p.v[CHOOSE i \in 1..Len(p.v) : p.v[i][1] = k][2]
    ELSE Undefined

Candidates == << <<"i", "d">>,
                 <<"r", "e", "s", "o", "u", "r", "c", "e", "I", "d">>,
                 <<"i", "t", "e", "m", "I", "d">>,
                 <<"e", "n", "t", "i", "t", "y", "I", "d">> >>

CandidateHit(p) ==
    \E i \in 1..4 : NonEmptyString(ParamValue(p, Candidates[i]))

\* C7: extractResourceId returns the value of the first of id, resourceId,
\* itemId, entityId (in that order) that holds a non-empty string, whatever
\* the insertion order of the path parameters.
C7_CandidateOrder ==
    (Applied("extractResourceId") /\ ParamsOf(call) # Undefined) =>
        \A i \in 1..4 :
            (/\ NonEmptyString(ParamValue(ParamsOf(call), Candidates[i]))
             /\ \A j \in 1..(i - 1) :
                    ~NonEmptyString(ParamValue(ParamsOf(call), Candidates[j])))
            => call.result = ParamValue(ParamsOf(call), Candidates[i])

C7_Witness ==
    /\ Applied("extractResourceId")
    /\ ParamsOf(call) = Obj(<< <<Candidates[3], Str(<<"A">>)>>,
                               <<Candidates[1], Str(<<"B">>)>> >>)
    /\ call.result = Str(<<"B">>)

\* C8: extractResourceId never returns an empty string: the result is absent
\* or a non-empty string that is the value of an entry; an absent mapping and
\* a mapping whose values are all empty or missing yield absent.
C8_NeverEmpty ==
    Applied("extractResourceId") =>
        LET p == ParamsOf(call) IN
        /\ call.result # Undefined =>
              /\ NonEmptyString(call.result)
              /\ p # Undefined
              /\ \E i \in 1..Len(p.v) : p.v[i][2] = call.result
        /\ p = Undefined => call.result = Undefined
        /\ (p # Undefined /\ \A i \in 1..Len(p.v) : ~NonEmptyString(p.v[i][2]))
              => call.result = Undefined

C8_Witness ==
    /\ Applied("extractResourceId")
    /\ ParamsOf(call) = Obj(<< <<Candidates[1], Str(<<>>)>> >>)
    /\ call.result = Undefined

\* entries an id-like scan accepts: lowercased key contains "id", value is a
\* non-empty string
IdLike(p) ==
    {i \in 1..Len(p.v) :
        /\ \E k \in 1..(Len(p.v[i][1]) - 1) :
              /\ p.v[i][1][k] \in {"i", "I"}
              /\ p.v[i][1][k + 1] \in {"d", "D"}
        /\ NonEmptyString(p.v[i][2])}

\* C9: when no fixed candidate holds a non-empty string, the result is the
\* value of the first entry in insertion order whose lowercased key contains
\* "id" and whose value is a non-empty string, and absent if there is none.
C9_FallbackScan ==
    (/\ Applied("extractResourceId")
     /\ ParamsOf(call) # Undefined
     /\ ~CandidateHit(ParamsOf(call)))
    => LET p == ParamsOf(call) IN
       IF IdLike(p) = {} THEN call.result = Undefined
       ELSE call.result = p.v[CHOOSE i \in IdLike(p) : \A j \in IdLike(p) : i <= j][2]

C9_Witness ==
    /\ Applied("extractResourceId")
    /\ ParamsOf(call) = Obj(<< <<Candidates[1], Str(<<>>)>>,
                               <<<<"u", "s", "e", "r", "I", "D">>, Str(<<"A">>)>> >>)
    /\ call.result = Str(<<"A">>)

Control(c) == CodeUnit(c) <= 31 \/ (127 <= CodeUnit(c) /\ CodeUnit(c) <= 159)

Kept(s) == SelectSeq(s, LAMBDA c : ~Control(c))

\* C10: sanitizeInput(s) is s without the characters 0x00-0x1F and 0x7F-0x9F,
\* cut to its first 10,000 characters after the removal; so it holds no
\* control character, is at most 10,000 long, and is s itself when s is clean
\* and short enough.
C10_SanitizeInput ==
    Applied("sanitizeInput") =>
        LET s == call.args[1]
            r == call.result.v
        IN  /\ Len(r) = (IF Len(Kept(s)) > 10000 THEN 10000 ELSE Len(Kept(s)))
            /\ r = SubSeq(Kept(s), 1, Len(r))
            /\ \A i \in 1..Len(r) : ~Control(r[i])
            /\ Len(r) <= 10000
            /\ (Len(s) <= 10000 /\ \A i \in 1..Len(s) : ~Control(s[i])) => r = s

C10_Witness ==
    /\ Applied("sanitizeInput")
    /\ Len(call.args[1]) = 10001
    /\ Control(call.args[1][1])
    /\ Len(call.result.v) = 10000

\* C11: sanitization is idempotent: applying validateAndSanitizeObject to the
\* value a successful application returned succeeds and returns that value.
C11_Idempotent ==
    call.fn = "validateAndSanitizeObject again" =>
        /\ call.result.ok
        /\ call.result.value = call.args[1]

C11_Witness ==
    /\ call.fn = "validateAndSanitizeObject again"
    /\ call.input # call.args[1]
    /\ call.input.t = "object"
    /\ \E i \in 1..Len(call.input.v) : call.input.v[i][2].t = "object"
    /\ call.result.ok

\* values the sanitizer is said to hand over untouched
PassedThrough(v) == v.t \in {"number", "boolean", "null", "array"}

\* C12: every number, boolean, null and array value of the input is found
\* unchanged in the result (arrays with their elements, unsanitized and
\* unvalidated), and an input holding only such values is returned as it is.
C12_PassThrough ==
    (Applied("validateAndSanitizeObject") /\ call.args[1].t = "object") =>
        LET x == call.args[1]
            r == call.result
        IN  /\ r.ok => \A i \in 1..Len(x.v) :
                          PassedThrough(x.v[i][2]) => r.value.v[i] = x.v[i]
            /\ (r.ok /\ \A i \in 1..Len(x.v) : PassedThrough(x.v[i][2]))
                  => r.value = x

RECURSIVE HasInvalidKey(_)
HasInvalidKey(x) ==
    CASE x.t = "object" ->
            \E i \in 1..Len(x.v) :
                \/ Len(x.v[i][1]) = 0
                \/ Len(x.v[i][1]) > 100
                \/ HasInvalidKey(x.v[i][2])
      [] x.t = "array" -> \E i \in 1..Len(x.v) : HasInvalidKey(x.v[i])
      [] OTHER -> FALSE

NotStructured(v) == v.t \in {"string", "number", "boolean", "null", "undefined"}

ErrorNameOf(resp) == Get(ErrorOf(resp), W("name")).v

\* C14: validateAndSanitizeObject fails with a ValidationError on field object
\* for every string, number, boolean and null input; an invocation whose body
\* parses to such a value returns status 400 with error.name ValidationError
\* and no operation branch has written to stdout.
C14_NotAnObject ==
    /\ (Applied("validateAndSanitizeObject") /\ NotStructured(call.args[1])) =>
           /\ ~call.result.ok
           /\ call.result.error.class = "ValidationError"
           /\ call.result.error.name = W("ValidationError")
           /\ call.result.error.field = W("object")
    /\ (Returned /\ parsed # None /\ parsed.ok /\ NotStructured(parsed.value)) =>
           /\ response.statusCode = 400
           /\ Get(response.body, W("success")) = Bool(FALSE)
           /\ ErrorNameOf(response) = W("ValidationError")
           /\ requestBody = Undefined
           /\ console = <<>>

C14_Witness ==
    /\ Returned
    /\ parsed # None
    /\ parsed.ok
    /\ parsed.value.t = "string"
    /\ event.body = Str(<<"\"not an object\"">>)
    /\ response.statusCode = 400


\* the seven fixed headers, as the contract lists them
SevenHeaders ==
    [k \in {"Content-Type", "X-Content-Type-Options", "X-Frame-Options",
            "X-XSS-Protection", "Strict-Transport-Security", "Cache-Control",
            "Pragma"} |->
        CASE k = "Content-Type" -> "application/json"
          [] k = "X-Content-Type-Options" -> "nosniff"
          [] k = "X-Frame-Options" -> "DENY"
          [] k = "X-XSS-Protection" -> "1; mode=block"
          [] k = "Strict-Transport-Security" -> "max-age=31536000; includeSubDomains"
          [] k = "Cache-Control" -> "no-store, no-cache, must-revalidate"
          [] k = "Pragma" -> "no-cache"]

\* C15: the headers of an envelope built by createApiResponse are the seven
\* fixed headers overlaid with the extra headers, the extra value winning on a
\* shared key; every response of the handler, whatever its status, carries the
\* seven fixed headers with their fixed values.
C15_Headers ==
    /\ Applied("createApiResponse") =>
           LET extra == call.args[3]
               got == call.result.headers
           IN  /\ DOMAIN got = DOMAIN SevenHeaders \cup DOMAIN extra
               /\ \A k \in DOMAIN got :
                      got[k] = IF k \in DOMAIN extra THEN extra[k] ELSE SevenHeaders[k]
    /\ response # None =>
           /\ response.statusCode \in {200, 400, 500}
           /\ \A k \in DOMAIN SevenHeaders :
                  /\ k \in DOMAIN response.headers
                  /\ response.headers[k] = SevenHeaders[k]

C15_Witness ==
    /\ Applied("createApiResponse")
    /\ "Content-Type" \in DOMAIN call.args[3]
    /\ call.result.headers["Content-Type"] = "text/plain"
    /\ call.result.headers["Pragma"] = "no-cache"

\* C16: errorResponse returns an envelope with the given status code, 500 when
\* none is given, and the body {success: false, error: {name, message}} with
\* the name and message of an Error object, or the name Error and the string
\* itself for a string; the call leaves exactly one error-level log record
\* holding the status code, the name and the message.
C16_ErrorResponse ==
    Applied("errorResponse") =>
        LET e == call.args[1]
            status == IF call.args[2] = Undefined THEN 500 ELSE call.args[2].v
            name == IF e.t = "error" THEN e.name ELSE <<"Error">>
            message == IF e.t = "error" THEN e.message ELSE e.v
        IN  /\ call.result.statusCode = status
            /\ call.result.body =
                  Obj(<< <<W("success"), Bool(FALSE)>>,
                         <<W("error"), Obj(<< <<W("name"), Str(name)>>,
                                              <<W("message"), Str(message)>> >>)>> >>)
            /\ Len(logs) = 1
            /\ logs[1].level = "error"
            /\ logs[1].statusCode = status
            /\ logs[1].errorName = name
            /\ logs[1].errorMessage = message

C16_Witness ==
    /\ Applied("errorResponse")
    /\ call.args[1].t = "error"
    /\ call.args[1].class = "ValidationError"
    /\ call.args[2] = Undefined
    /\ call.result.statusCode = 500
    /\ Len(logs) = 1

\* the error-level records of the invocation, in the order written
ErrorRecords == SelectSeq(logs, LAMBDA l : l.level = "error")

ApiErrorRecords == SelectSeq(ErrorRecords, LAMBDA l : l.msg = "API Error")

Failed == Returned /\ response.statusCode # 200

\* C17 as stated: an invocation that returns an error response has written
\* exactly one error-level log record.
C17_ExactlyOneErrorRecord ==
    Failed => Len(ErrorRecords) = 1

\* C17 as amended: an invocation that returns an error response has written
\* exactly one API Error record, its last error-level record, holding the
\* status, name and message of the response; it is the only error-level
\* record on the paths that return 400, and on the caught-fault path (500) it
\* follows one record Unexpected error in Lambda handler.
C17_LoggedOnceWhenFormatted ==
    Failed =>
        /\ Len(ApiErrorRecords) = 1
        /\ ApiErrorRecords[1].statusCode = response.statusCode
        /\ ApiErrorRecords[1].errorName = ErrorNameOf(response)
        /\ ApiErrorRecords[1].errorMessage = ErrorMessageOf(response)
        /\ ErrorRecords[Len(ErrorRecords)] = ApiErrorRecords[1]
        /\ IF response.statusCode = 500
           THEN /\ Len(ErrorRecords) = 2
                /\ ErrorRecords[1].msg = "Unexpected error in Lambda handler"
           ELSE Len(ErrorRecords) = 1

C17_Witness ==
    /\ Failed
    /\ event.requestContext = Undefined
    /\ response.statusCode = 500
    /\ Len(ErrorRecords) = 2
    /\ Len(ApiErrorRecords) = 1

\* a fault raised in one of the dispatcher steps 1 to 6
FaultInSteps == fault.at \in {"attach", "logRequest", "branch", "success"}

\* C18: a fault raised in one of the steps 1 to 6 never leaves the handler;
\* an invocation in which logging the request raised a fault that is none of
\* the known error kinds returns a response with status 500.
C18_NoFaultEscapes ==
    FaultInSteps =>
        /\ pc # "escaped"
        /\ (Returned /\ fault.at = "logRequest" /\ ctxResult # None /\ ctxResult.ok) =>
               response.statusCode = 500

\* C19: on every exit path that has produced a response (early 400 return,
\* 200, caught fault) the segment, when one was obtained, has been closed
\* exactly once when the handler has returned, and not before the response
\* was produced.
C19_FinalizedOnce ==
    /\ Returned => closed = (IF segment THEN 1 ELSE 0)
    /\ pc # "returned" => closed = 0
    /\ pc \in {"finally", "returned"} <=> response # None

C19_Witness ==
    /\ Returned
    /\ segment
    /\ closed = 1
    /\ response.statusCode = 400
    /\ parsed # None
    /\ ~parsed.ok

MalformedBody == truthy(event.body) /\ JSONParse(event.body.v) = None

\* C20: an invocation that has built its context and logged the request, and
\* whose body is non-empty text that is not well-formed JSON, returns status
\* 400 with success false and the ValidationError on field body that parsing
\* produced; the body is never sanitized and no operation branch writes to
\* stdout.
C20_MalformedBody ==
    /\ (pc = "sanitize" \/ (pc \in {"dispatch", "success"} /\ truthy(event.body))) =>
           (parsed # None /\ parsed.ok)
    /\ (Returned /\ MalformedBody /\ ctxResult # None /\ ctxResult.ok
            /\ fault.at # "logRequest") =>
           /\ response.statusCode = 400
           /\ Get(response.body, W("success")) = Bool(FALSE)
           /\ ErrorNameOf(response) = W("ValidationError")
           /\ parsed # None
           /\ ~parsed.ok
           /\ parsed.error.field = W("body")
           /\ ErrorMessageOf(response) = parsed.error.message
           /\ requestBody = Undefined
           /\ console = <<>>

C20_Witness ==
    /\ Returned
    /\ event.body = Str(<<"{", "invalid", "json", "}">>)
    /\ event.requestContext # Undefined
    /\ MethodOf(event) = Str(POST)
    /\ response.statusCode = 400
    /\ ErrorNameOf(response) = W("ValidationError")

\* the operation the contract assigns to an accepted method
OperationOfMethod(m) ==
    CASE m = <<"P", "O", "S", "T">> -> "CREATE"
      [] m = <<"G", "E", "T">> -> "READ"
      [] m \in {<<"P", "U", "T">>, <<"P", "A", "T", "C", "H">>} -> "UPDATE"
      [] m = <<"D", "E", "L", "E", "T", "E">> -> "DELETE"
      [] OTHER -> "none"

ContextBuilt == ctxResult # None /\ ctxResult.ok

\* the body was absent, or it was parsed and sanitized
PassedValidation == ~truthy(event.body) \/ requestBody # Undefined

DataOf(resp) == Get(resp.body, W("data"))

\* C21: an invocation that built its context and passed body validation, and
\* in which no library call threw, has run exactly one operation branch, the
\* one of the classified operation, and returns status 200 with success true,
\* data.operation that operation and data.resourceId the extracted resource
\* id (absent when none was extracted); no invocation runs two branches.
C21_OneBranch ==
    /\ Len(console) <= 1
    /\ (Returned /\ fault = NoFault /\ ContextBuilt /\ PassedValidation) =>
           LET op == OperationOfMethod(MethodOf(event).v) IN
           /\ Len(console) = 1
           /\ console[1].op = op
           /\ response.statusCode = 200
           /\ Get(response.body, W("success")) = Bool(TRUE)
           /\ Get(DataOf(response), W("operation")) = Str(W(op))
           /\ Get(DataOf(response), W("resourceId")) = extractResourceId(event)

C21_Witness ==
    /\ Returned
    /\ ContextBuilt
    /\ MethodOf(event) = Str(PUT)
    /\ requestBody # Undefined
    /\ Len(console) = 1
    /\ console[1].op = "UPDATE"
    /\ response.statusCode = 200
    /\ Get(DataOf(response), W("resourceId")).t = "string"

C21_WitnessList ==
    /\ Returned
    /\ ContextBuilt
    /\ MethodOf(event) = Str(GET)
    /\ response.statusCode = 200
    /\ Get(DataOf(response), W("resourceId")) = Undefined

\* the injected fault was raised inside the try block of this invocation
RaisedInTry ==
    \/ fault.at = "logRequest" /\ ContextBuilt
    \/ fault.at \in {"branch", "success"} /\ ContextBuilt /\ PassedValidation

KeysOf(o) == {o.v[i][1] : i \in 1..Len(o.v)}

C22_WitnessTypeError ==
    /\ Returned
    /\ event.requestContext = Undefined
    /\ response.statusCode = 500
    /\ ErrorNameOf(response) = <<"TypeError">>

JavaReturned == pc = "java:returned"

JavaEvent == call.args[1]

\* the header maps written to the log
LoggedHeaders ==
    {logs[i].arg : i \in {j \in 1..Len(logs) : logs[j].msg = "Headers: {}"}}

SensitiveNames ==
    {<<"a", "u", "t", "h", "o", "r", "i", "z", "a", "t", "i", "o", "n">>,
     <<"x", "-", "a", "p", "i", "-", "k", "e", "y">>,
     <<"c", "o", "o", "k", "i", "e">>}

\* C23: no header map written to the log holds an Authorization, X-Api-Key or
\* Cookie header, whatever the letter case of the name in the request.
C23_NoSensitiveHeaderLogged ==
    \A h \in LoggedHeaders :
        \A k \in DOMAIN h.m : toLowerCase(k) \notin SensitiveNames

\* the event has a request context with a method string
HasMethodString ==
    /\ JavaEvent # Null
    /\ JavaEvent.requestContext # Null
    /\ JavaEvent.requestContext.http # Null
    /\ JavaEvent.requestContext.http.method # Null

HasPiece(text, piece) == \E i \in 1..Len(text) : text[i] = piece

CrudLines ==
    SelectSeq(logs, LAMBDA l : l.msg = "CRUD Operation: {}")

\* C24: an invocation whose event has a request context with a method string,
\* whatever the method, returns status 200 with a body holding Request logged
\* successfully and the request id, an unknown method being logged as CRUD
\* operation UNKNOWN; an invocation whose processing throws returns status 500
\* with a body holding Internal server error and the request id; both carry
\* Content-Type application/json.
C24_NeverRejectsByMethod ==
    JavaReturned =>
        /\ "Content-Type" \in DOMAIN response.headers
        /\ response.headers["Content-Type"] = "application/json"
        /\ HasPiece(response.body, call.args[2].awsRequestId)
        /\ IF HasMethodString
           THEN /\ response.statusCode = 200
                /\ HasPiece(response.body, "\"Request logged successfully\"")
                /\ Len(CrudLines) = 1
                /\ toUpperCase(JavaEvent.requestContext.http.method.v)
                        \notin {<<"G", "E", "T">>, <<"P", "O", "S", "T">>,
                                 <<"P", "U", "T">>, <<"P", "A", "T", "C", "H">>,
                                 <<"D", "E", "L", "E", "T", "E">>}
                      => CrudLines[1].arg = "UNKNOWN"
           ELSE /\ response.statusCode = 500
                /\ HasPiece(response.body, "\"Internal server error\"")

C24_Witness ==
    /\ JavaReturned
    /\ HasMethodString
    /\ JavaEvent.requestContext.http.method = Str(OPTIONS)
    /\ response.statusCode = 200
    /\ CrudLines[1].arg = "UNKNOWN"

C24_WitnessFailure ==
    /\ JavaReturned
    /\ JavaEvent # Null
    /\ JavaEvent.requestContext = Null
    /\ response.statusCode = 500

IncomingLines == SelectSeq(logs, LAMBDA l : l.msg = "Incoming request")

\* some step after the first has acted
PastFirstStep ==
    \/ pc \notin {"start", "escaped"}
    \/ segment
    \/ ctxResult # None
    \/ logs # <<>>
    \/ parsed # None
    \/ console # <<>>
    \/ response # None

\* C25: the invocation metadata is attached before any other step acts; at
\* most one Incoming request line is written, only after the context was
\* built and as the first log record; once the request has been logged (the
\* logger not failing) there is exactly one; the body is parsed and a branch
\* runs only after the line was written, so it is there when the body is
\* rejected with 400.
C25_StepsInOrder ==
    /\ PastFirstStep => attrs
    /\ Len(IncomingLines) <= 1
    /\ Len(IncomingLines) = 1 => (ContextBuilt /\ logs[1] = IncomingLines[1])
    /\ (ContextBuilt /\ pc # "logRequest" /\ fault.at # "logRequest") =>
           Len(IncomingLines) = 1
    /\ (parsed # None \/ console # <<>> \/ requestBody # Undefined) =>
           Len(IncomingLines) = 1

C25_Witness ==
    /\ Returned
    /\ attrs
    /\ parsed # None
    /\ ~parsed.ok
    /\ response.statusCode = 400
    /\ Len(IncomingLines) = 1
    /\ Len(logs) = 2

\* the invocation has stopped: no step of the handler can act
Stopped == ~ENABLED Next

\* C26: an invocation that has stopped has returned exactly one response
\* envelope, and no step has acted twice: at most one request line, one
\* formatted error, one branch output and one closing of the segment, with
\* exactly one formatted error when the response is an error response.
C26_OneResponseNoRetry ==
    /\ Stopped => (Returned /\ response # None)
    /\ Len(IncomingLines) <= 1
    /\ Len(ApiErrorRecords) <= 1
    /\ Len(console) <= 1
    /\ closed <= 1
    /\ Failed => Len(ApiErrorRecords) = 1

\* C27: parseRequestBody always returns a result: ok with an empty object
\* for an absent or empty body, ok with the parsed value of whatever kind for
\* well-formed JSON text, and a failure carrying a ValidationError on field
\* body for any other text.
C27_ParseRequestBody ==
    Applied("parseRequestBody") =>
        LET body == call.args[1]
            r == call.result
        IN  /\ r # None
            /\ IF body = Undefined \/ body = Str(<<>>)
               THEN r = Ok(Obj(<<>>))
               ELSE IF JSONParse(body.v) # None
               THEN /\ r.ok
                    /\ r.value = JSONParse(body.v)
               ELSE /\ ~r.ok
                    /\ r.error.class = "ValidationError"
                    /\ r.error.name = W("ValidationError")
                    /\ r.error.field = W("body")

C27_Witness ==
    /\ Applied("parseRequestBody")
    /\ call.args[1] = Str(<<"[", "1", ",", "2", ",", "3", "]">>)
    /\ call.result.ok
    /\ call.result.value = Arr(<<Num(1), Num(2), Num(3)>>)

\* C28: a context that createRequestContext returns holds the operation the
\* mapping assigns to the event's method and the resource id that
\* extractResourceId finds in the event, present and non-empty when the
\* operation is UPDATE or DELETE; a failure of the classification is returned
\* as the very result the classification gave.
C28_ContextInvariant ==
    Applied("createRequestContext") =>
        LET ev == call.args[1]
            r == call.result
            id == extractResourceId(ev)
        IN  /\ r.ok =>
                  /\ AcceptedMethod(MethodOf(ev))
                  /\ r.value.operation = OperationOfMethod(MethodOf(ev).v)
                  /\ r.value.resourceId = id
                  /\ r.value.operation \in {"UPDATE", "DELETE"} =>
                         NonEmptyString(r.value.resourceId)
            /\ (~r.ok /\ AcceptedMethod(MethodOf(ev))) =>
                  /\ r = mapHttpMethodToCrudOperation(MethodOf(ev).v, id # Undefined)
                  /\ r.error.field = W("resourceId")

C28_Witness ==
    /\ Applied("createRequestContext")
    /\ MethodOf(call.args[1]) = Str(DELETE)
    /\ call.result.ok
    /\ call.result.value.operation = "DELETE"
    /\ NonEmptyString(call.result.value.resourceId)

C28_WitnessFailure ==
    /\ Applied("createRequestContext")
    /\ MethodOf(call.args[1]) = Str(PATCH)
    /\ ~call.result.ok
    /\ call.result.error.field = W("resourceId")

\* C29: every response of the handler has status 200, 400 or 500; with 200
\* the body holds success true and data and no error, otherwise success
\* false and an error object of name and message, both strings, and no data.
C29_EnvelopeShape ==
    response # None =>
        /\ response.statusCode \in {200, 400, 500}
        /\ Get(response.body, W("success")) = Bool(response.statusCode = 200)
        /\ IF response.statusCode = 200
           THEN /\ KeysOf(response.body) = {W("success"), W("data")}
                /\ DataOf(response) # Undefined
           ELSE /\ KeysOf(response.body) = {W("success"), W("error")}
                /\ KeysOf(ErrorOf(response)) = {W("name"), W("message")}
                /\ Get(ErrorOf(response), W("name")).t = "string"
                /\ Get(ErrorOf(response), W("message")).t = "string"

C29_Witness ==
    /\ Returned
    /\ RaisedInTry
    /\ fault.error.t = "error"
    /\ response.statusCode = 500
    /\ Get(response.body, W("success")) = Bool(FALSE)
    /\ DataOf(response) = Undefined

\* the body text is malformed, or denotes a string, number, boolean or null
RejectedBody ==
    /\ truthy(event.body)
    /\ \/ JSONParse(event.body.v) = None
       \/ NotStructured(JSONParse(event.body.v))

\* C30: a GET or DELETE invocation that has built its context and logged the
\* request, and whose non-empty body is malformed or denotes no object,
\* returns status 400 and its branch has written nothing; an empty-string
\* body is never parsed, and the invocation goes on as without a body.
C30_BodyValidatedForEveryOperation ==
    /\ (Returned /\ ContextBuilt /\ fault.at # "logRequest" /\ RejectedBody
            /\ MethodOf(event).v \in {<<"G", "E", "T">>,
                                      <<"D", "E", "L", "E", "T", "E">>}) =>
           /\ response.statusCode = 400
           /\ Get(response.body, W("success")) = Bool(FALSE)
           /\ console = <<>>
    /\ event.body = Str(<<>>) =>
           /\ parsed = None
           /\ requestBody = Undefined
           /\ (Returned /\ ContextBuilt /\ fault = NoFault) =>
                  (response.statusCode = 200 /\ Len(console) = 1)

C30_Witness ==
    /\ Returned
    /\ ContextBuilt
    /\ MethodOf(event) = Str(DELETE)
    /\ RejectedBody
    /\ JSONParse(event.body.v) = Num(42)
    /\ response.statusCode = 400
    /\ console = <<>>

C30_WitnessEmpty ==
    /\ Returned
    /\ ContextBuilt
    /\ event.body = Str(<<>>)
    /\ MethodOf(event) = Str(GET)
    /\ response.statusCode = 200
====
